---- MODULE Spec2Model ----
\* Model of arena.h v1.0.1 (src/arena.h): a region-based allocator kept as a
\* singly linked chain of Arena_Region blocks obtained from ARENA_REALLOC.
\*
\* Memory is a finite set of block addresses (Slots).  mem[s] holds the three
\* header fields of the block at address s, whether or not the block is
\* currently owned by the program; live is the set of blocks the underlying
\* allocator has handed out and not yet taken back.  Reading or writing a
\* block outside live, and walking a chain that never reaches NULL, are the
\* undefined behaviours the code can run into; they are modelled as a choice
\* between the program going on with the bytes that are there and the program
\* stopping (status "fault") or looping forever (status "hang").
EXTENDS Integers, Sequences, FiniteSets

\* ---------------------------------------------------------------- bounds
\* Number of block addresses the underlying allocator can hand out.
MaxRegions == 2
\* Request sizes are the multiples k * Unit, k in 0..MaxUnits, and SIZE_MAX.
Unit == 4096
MaxUnits == 3

\* ------------------------------------------------------ program constants
\* size_t is modelled 14 bits wide: arithmetic on sizes is modulo SIZE_MOD.
SIZE_MOD == 16384
SIZE_MAX == SIZE_MOD - 1
\* #define ARENA_REGION_CAPACITY (8*1024)
ARENA_REGION_CAPACITY == 8192
\* sizeof(Arena_Region): next, count, capacity (three 8-byte words).
HeaderSize == 24

NULL == 0
Slots == 1..MaxRegions
Sizes == {n \in {k * Unit : k \in 0..MaxUnits} : n <= SIZE_MAX} \cup {SIZE_MAX}
\* The non-zero region capacity handed to arena_create.
CustomCapacity == Unit
Capacities == {0, CustomCapacity}
\* The value found in a field the code never wrote.
Garbage == {NULL} \cup Slots

NoHandle == [region |-> NULL, off |-> 0, size |-> 0]

VARIABLES
    a,       \* the Arena: head, tail, region_capacity
    mem,     \* block address -> Arena_Region header (next, count, capacity)
    live,    \* blocks acquired from the allocator and not released
    status,  \* "ok", or "fault"/"hang" once undefined behaviour has struck
    ret,     \* handle returned by the last call if it was an arena_alloc, else NoHandle
    last     \* what the last call was and did

vars == <<a, mem, live, status, ret, last>>

\* ------------------------------------------------------------ pure parts
\* Arena a = {0}; a.region_capacity = region_capacity;
arena_create(region_capacity) ==
    [head |-> NULL, tail |-> NULL, region_capacity |-> region_capacity]

\* a->region_capacity == 0 ? ARENA_REGION_CAPACITY : a->region_capacity
EffectiveCapacity(arena) ==
    IF arena.region_capacity = 0 THEN ARENA_REGION_CAPACITY
    ELSE arena.region_capacity

RegionSize_default(bytes, region_capacity) == region_capacity

\* size = (bytes > region_capacity ? bytes : region_capacity)
RegionSize(bytes, region_capacity) ==
    IF bytes > region_capacity THEN bytes ELSE region_capacity

\* sizeof(*a->head) + size, in size_t
RequestSize(size) == (HeaderSize + size) % SIZE_MOD

Remaining_capacity(r) == r.capacity

\* a->tail->capacity - a->tail->count, in size_t
Remaining(r) == (r.capacity - r.count) % SIZE_MOD

\* What ARENA_REALLOC(NULL, n) can return: NULL, or the address of a free block.
FreeSlots(lv) == Slots \ lv
MallocResults(lv) ==
    {NULL} \cup (IF FreeSlots(lv) = {} THEN {}
                 ELSE {CHOOSE s \in FreeSlots(lv) : \A t \in FreeSlots(lv) : s <= t})

\* while (a->tail->next != NULL && bytes > a->tail->capacity - a->tail->count)
\*     a->tail = a->tail->next;
\* seen is the set of blocks the cursor has been at; coming back to one of
\* them means the loop never ends.
RECURSIVE FindRegion(_, _, _, _)
FindRegion(m, t, bytes, seen) ==
    IF m[t].next # NULL /\ bytes > Remaining(m[t])
    THEN IF m[t].next \in seen
         THEN [tail |-> t, seen |-> seen, hang |-> TRUE]
         ELSE FindRegion(m, m[t].next, bytes, seen \cup {m[t].next})
    ELSE [tail |-> t, seen |-> seen, hang |-> FALSE]

\* for (cur = a->head; cur != NULL; cur = cur->next): the blocks visited, in
\* order, and whether the walk comes back to a block it has visited.
RECURSIVE WalkChain(_, _, _)
WalkChain(m, cur, visited) ==
    IF cur = NULL THEN [nodes |-> visited, hang |-> FALSE]
    ELSE IF \E i \in 1..Len(visited) : visited[i] = cur
         THEN [nodes |-> visited, hang |-> TRUE]
         ELSE WalkChain(m, m[cur].next, Append(visited, cur))

Range(s) == {s[i] : i \in 1..Len(s)}

\* ------------------------------------------------------------ arena_alloc
\* The outcome of one call when the program goes on: the new Arena and
\* memory, the handle returned, and what the call did on the way.
\*   malloc   "none" (no underlying allocation), "ok" or "fail"
\*   request  the byte count passed to ARENA_REALLOC
\*   asserts  the conditions passed to ARENA_ASSERT, in order
\*   path     "empty", "bump" (tail had room), "walk" (found by the walk),
\*            "append" (new region after the walk), "hang"
\*   touched  the blocks whose header the call read or wrote
Outcome(arena, m, h, mal, req, asr, path, touched) ==
    [a |-> arena, mem |-> m, ret |-> h, malloc |-> mal, request |-> req,
     asserts |-> asr, path |-> path, touched |-> touched]

\* Empty arena: lines 158-169.  p is what ARENA_REALLOC returns and g the
\* bytes found in the next field of the fresh block, which is never written.
AllocEmpty(arena, m, bytes, p, g) ==
    LET size == RegionSize(bytes, EffectiveCapacity(arena))
        req  == RequestSize(size)
    IN  IF p = NULL
        THEN Outcome([arena EXCEPT !.head = NULL], m, NoHandle,
                     "fail", req, <<FALSE>>, "empty", {})
        ELSE Outcome([arena EXCEPT !.head = p, !.tail = p],
                     [m EXCEPT ![p] = [next |-> g, count |-> bytes, capacity |-> size]],
                     [region |-> p, off |-> 0, size |-> bytes],
                     "ok", req, <<TRUE>>, "empty", {p})

AllocBump_keeptail(arena, m, t, bytes, path, touched) ==
    LET count == (m[t].count + bytes) % SIZE_MOD
    IN  Outcome(arena,
                [m EXCEPT ![t].count = count],
                [region |-> t, off |-> count, size |-> bytes],
                "none", 0, <<>>, path, touched)

\* a->tail->count += bytes; return a->tail->data + a->tail->count;
\* (lines 193-194: the offset is read after the increment)
AllocBump(arena, m, t, bytes, path, touched) ==
    LET count == (m[t].count + bytes) % SIZE_MOD
    IN  Outcome([arena EXCEPT !.tail = t],
                [m EXCEPT ![t].count = count],
                [region |-> t, off |-> count, size |-> bytes],
                "none", 0, <<>>, path, touched)

\* New region after the walk: lines 179-190, a->tail = t on entry.
AllocAppend(arena, m, t, bytes, p, g, touched) ==
    LET size == RegionSize(bytes, EffectiveCapacity(arena))
        req  == RequestSize(size)
        \* the block as ARENA_REALLOC hands it over
        m0   == IF p = NULL THEN m ELSE [m EXCEPT ![p].next = g]
        \* a->tail->next = ARENA_REALLOC(...)
        m1   == [m0 EXCEPT ![t].next = p]
        \* ARENA_ASSERT(a->head != NULL)
        asr  == <<arena.head # NULL>>
    IN  IF p = NULL
        THEN Outcome([arena EXCEPT !.tail = t], m1, NoHandle,
                     "fail", req, asr, "append", touched)
        ELSE Outcome([arena EXCEPT !.tail = p],
                     [m1 EXCEPT ![p].count = bytes, ![p].capacity = size],
                     [region |-> p, off |-> 0, size |-> bytes],
                     "ok", req, asr, "append", touched \cup {p})

\* void *arena_alloc(Arena *a, size_t bytes), lines 148-195.
arena_alloc(arena, m, bytes, p, g) ==
    IF arena.head = NULL THEN AllocEmpty(arena, m, bytes, p, g)
    ELSE IF bytes > Remaining(m[arena.tail])
    THEN LET w == FindRegion(m, arena.tail, bytes, {arena.tail})
         IN  IF w.hang
             THEN Outcome([arena EXCEPT !.tail = w.tail], m, NoHandle,
                          "none", 0, <<>>, "hang", w.seen)
             ELSE IF bytes > Remaining(m[w.tail])
             THEN AllocAppend(arena, m, w.tail, bytes, p, g, w.seen)
             ELSE AllocBump(arena, m, w.tail, bytes, "walk", w.seen)
    ELSE AllocBump(arena, m, arena.tail, bytes, "bump", {arena.tail})

\* ------------------------------------------------------------ arena_reset
\* cur->count = 0
ResetRegion(r) == [r EXCEPT !.count = 0]

ResetTail_keep(arena) == arena

\* a->tail = a->head
ResetTail(arena) == [arena EXCEPT !.tail = arena.head]

ResetStart_tail(arena) == arena.tail

\* Arena_Region *cur = a->head
ResetStart(arena) == arena.head

\* void arena_reset(Arena *a), lines 215-226, when the walk ends.
arena_reset(arena, m) ==
    LET w == WalkChain(m, ResetStart(arena), <<>>)
    IN  [a   |-> ResetTail(arena),
         mem |-> [s \in Slots |-> IF s \in Range(w.nodes) THEN ResetRegion(m[s]) ELSE m[s]],
         nodes |-> w.nodes, hang |-> w.hang]

\* ------------------------------------------------------------- arena_free
ClearArena_memset(arena) == [head |-> NULL, tail |-> NULL, region_capacity |-> 0]

\* a->head = NULL; a->tail = NULL;   // a->region_capacity = 0;
ClearArena(arena) == [arena EXCEPT !.head = NULL, !.tail = NULL]

\* void arena_free(Arena *a), lines 197-213: every block of the walk is
\* handed to free(), in order.
arena_free(arena, m) ==
    LET w == WalkChain(m, arena.head, <<>>)
    IN  [a |-> ClearArena(arena), freed |-> w.nodes, hang |-> w.hang]

\* ------------------------------------------------------ compile-time hooks
\* The two ways the header is built: with the default hooks, or with the
\* embedder's ARENA_REALLOC and ARENA_FREE defined before the #include.
Configs == {"default", "custom"}

\* #ifndef ARENA_REALLOC / #define ARENA_REALLOC realloc
ARENA_REALLOC(cfg) == IF cfg = "default" THEN "realloc" ELSE "my_realloc"

\* #ifndef ARENA_FREE / #define ARENA_FREE free
ARENA_FREE(cfg) == IF cfg = "default" THEN "free" ELSE "my_free"

\* The function arena_alloc calls for a region: ARENA_REALLOC(NULL, ...)
AcquireBy(cfg) == ARENA_REALLOC(cfg)

\* The function arena_free calls on a region: free(cur)
ReleaseBy(cfg) == "free"

\* ---------------------------------------------------------------- actions
\*   op       "init", "create", "alloc", "reset", "free"
\*   bytes    the argument of arena_alloc / arena_create
\*   freed    the blocks handed to the deallocator, in order
\*   by       per build, the function the call acquired or released blocks with
\*   twice    the call is an arena_reset right after an arena_reset
Call(op, bytes, mal, req, asr, path, freed) ==
    [op |-> op, bytes |-> bytes, malloc |-> mal, request |-> req,
     asserts |-> asr, path |-> path, freed |-> freed,
     by |-> [cfg \in Configs |->
                IF op = "free" /\ freed # <<>> THEN ReleaseBy(cfg)
                ELSE IF mal # "none" THEN AcquireBy(cfg)
                ELSE "none"],
     twice |-> IF op = "reset" THEN last.op = "reset" ELSE FALSE]

ZeroRegion == [next |-> NULL, count |-> 0, capacity |-> 0]

\* Arena a = {0};  or  Arena a = arena_create(c);
Init ==
    /\ a \in {arena_create(c) : c \in Capacities}
    /\ mem = [s \in Slots |-> ZeroRegion]
    /\ live = {}
    /\ status = "ok"
    /\ ret = NoHandle
    /\ last = Call("init", 0, "none", 0, <<>>, "none", <<>>)

\* a = arena_create(c) over an Arena that owns no region.
Create ==
    /\ status = "ok"
    /\ a.head = NULL
    /\ \E c \in Capacities :
        /\ a' = arena_create(c)
        /\ last' = Call("create", c, "none", 0, <<>>, "none", <<>>)
    /\ ret' = NoHandle
    /\ UNCHANGED <<mem, live, status>>

\* The call ends outside defined behaviour: the program is gone, in the
\* state the call started from.
Stop(how) ==
    /\ status' = how
    /\ UNCHANGED <<a, mem, live, ret, last>>

\* The call reads or writes a header outside the blocks owned, or writes the
\* header of a block shorter than a header.
AllocUB(r, p) ==
    \/ r.touched \ (live \cup {p}) # {}
    \/ r.malloc = "ok" /\ r.request < HeaderSize

\* arena_alloc(&a, bytes) returns.  S: the sizes asked for; G: what the
\* allocator's blocks can hold.
AllocReturn(S, G) ==
    /\ status = "ok"
    /\ \E bytes \in S, p \in MallocResults(live), g \in G :
        LET r == arena_alloc(a, mem, bytes, p, g)
        IN  /\ r.path # "hang"
            /\ a' = r.a
            /\ mem' = r.mem
            /\ live' = IF r.malloc = "ok" THEN live \cup {p} ELSE live
            /\ ret' = r.ret
            /\ last' = Call("alloc", bytes, r.malloc, r.request, r.asserts,
                            r.path, <<>>)
            /\ UNCHANGED status

\* arena_alloc(&a, bytes) never leaves the loop of line 174.
AllocHang(S, G) ==
    /\ status = "ok"
    /\ \E bytes \in S, p \in MallocResults(live), g \in G :
        /\ arena_alloc(a, mem, bytes, p, g).path = "hang"
        /\ Stop("hang")

\* arena_alloc(&a, bytes) crashes.
AllocFault(S, G) ==
    /\ status = "ok"
    /\ \E bytes \in S, p \in MallocResults(live), g \in G :
        /\ AllocUB(arena_alloc(a, mem, bytes, p, g), p)
        /\ Stop("fault")

\* arena_reset(&a) returns.
ResetReturn ==
    /\ status = "ok"
    /\ LET r == arena_reset(a, mem)
       IN  /\ ~r.hang
           /\ a' = r.a
           /\ mem' = r.mem
    /\ ret' = NoHandle
    /\ last' = Call("reset", 0, "none", 0, <<>>, "none", <<>>)
    /\ UNCHANGED <<live, status>>

\* arena_reset(&a) never leaves the loop of line 221.
ResetHang ==
    /\ status = "ok"
    /\ arena_reset(a, mem).hang
    /\ Stop("hang")

\* arena_reset(&a) crashes writing a block that is not owned.
ResetFault ==
    /\ status = "ok"
    /\ Range(arena_reset(a, mem).nodes) \ live # {}
    /\ Stop("fault")

\* arena_free(&a) returns.  free() leaves the bytes of a block indeterminate:
\* the model keeps zeros there, and what a later owner finds in the next
\* field it never writes is chosen when the block is handed out again.
FreeReturn ==
    /\ status = "ok"
    /\ LET r == arena_free(a, mem)
       IN  /\ ~r.hang
           /\ a' = r.a
           /\ live' = live \ Range(r.freed)
           /\ mem' = [s \in Slots |-> IF s \in Range(r.freed) THEN ZeroRegion ELSE mem[s]]
           /\ last' = Call("free", 0, "none", 0, <<>>, "none", r.freed)
    /\ ret' = NoHandle
    /\ UNCHANGED status

\* arena_free(&a) goes round a cycle, freeing its blocks again and again.
FreeHang ==
    /\ status = "ok"
    /\ arena_free(a, mem).hang
    /\ Stop("hang")

\* arena_free(&a) crashes on a block that is not owned (any more).
FreeFault ==
    /\ status = "ok"
    /\ LET r == arena_free(a, mem) IN r.hang \/ Range(r.freed) \ live # {}
    /\ Stop("fault")

Alloc ==
    \/ AllocReturn(Sizes, Garbage)
    \/ AllocHang(Sizes, Garbage)
    \/ AllocFault(Sizes, Garbage)
Reset == ResetReturn \/ ResetHang \/ ResetFault
Free == FreeReturn \/ FreeHang \/ FreeFault

Next == Create \/ Alloc \/ Reset \/ Free

\* The program over any allocator and any request size.
Spec == Init /\ [][Next]_vars

\* The program inside defined behaviour: the allocator's blocks come
\* zero-filled (a calloc-like ARENA_REALLOC, fresh pages), so the next field
\* of a new region reads NULL, and no request is so large that
\* sizeof(Arena_Region) + size wraps.
SafeSizes == {n \in Sizes : HeaderSize + n <= SIZE_MAX}

NextDefined ==
    \/ Create
    \/ AllocReturn(SafeSizes, {NULL})
    \/ ResetReturn
    \/ FreeReturn

SpecDefined == Init /\ [][NextDefined]_vars

\* ------------------------------------------------------------- vocabulary
\* The regions of the chain, from head along next, in order.
Chain(m, arena) == WalkChain(m, arena.head, <<>>).nodes
\* The chain ends in NULL and every node of it is a block the arena owns.
WellFormed(m, arena, lv) ==
    /\ ~WalkChain(m, arena.head, <<>>).hang
    /\ Range(Chain(m, arena)) \subseteq lv

Max(x, y) == IF x > y THEN x ELSE y
\* The default capacity D of the claims.
DefaultOf(arena) ==
    IF arena.region_capacity # 0 THEN arena.region_capacity ELSE ARENA_REGION_CAPACITY

\* Two handles share at least one byte.
Overlap(h1, h2) ==
    /\ h1.region = h2.region
    /\ h1.size > 0 /\ h2.size > 0
    /\ h1.off < h2.off + h2.size
    /\ h2.off < h1.off + h1.size

\* The step is a call of the named function that returned.
Returned(op) == status = "ok" /\ status' = "ok" /\ last'.op = op
AllocSucceeded == Returned("alloc") /\ ret' # NoHandle

\* ------------------------------------------------------------------ C1
\* C1 (as claimed): the handles of two successive successful arena_alloc
\* calls, with no reset/free between them, never share a byte.
C1_NoOverlap ==
    [][(AllocSucceeded /\ ret # NoHandle) => ~Overlap(ret, ret')]_vars

\* ------------------------------------------------------------------ C2
\* C2 (as claimed): the handle returned by arena_alloc lies inside the used
\* part of its region: 0 <= off, off + bytes <= used <= capacity.
C2_InBounds ==
    (status = "ok" /\ last.op = "alloc" /\ ret # NoHandle) =>
        /\ 0 <= ret.off
        /\ ret.off + ret.size <= mem[ret.region].count
        /\ mem[ret.region].count <= mem[ret.region].capacity

\* ------------------------------------------------------------------ C3
\* C3 (as claimed): when an existing region serves the request, its used
\* grows by exactly bytes and the offset returned is used before the bump.
C3_PreBumpOffset ==
    [][(AllocSucceeded /\ last'.path \in {"bump", "walk"}) =>
        LET t == a'.tail
        IN  /\ ret'.region = t
            /\ mem'[t].count = mem[t].count + last'.bytes
            /\ ret'.off = mem[t].count]_vars

\* ------------------------------------------------------------------ C4
\* C4 (as claimed): arena_reset on a non-empty arena followed at once by
\* arena_alloc(bytes), bytes <= head.capacity, returns offset 0 of head,
\* leaves head.used = bytes and tail = head, and creates no region.
C4_ReuseAfterReset ==
    [][(last.op = "reset" /\ a.head # NULL /\ Returned("alloc")
            /\ last'.bytes <= mem[a.head].capacity) =>
        /\ ret' = [region |-> a.head, off |-> 0, size |-> last'.bytes]
        /\ mem'[a.head].count = last'.bytes
        /\ a'.head = a.head /\ a'.tail = a.head
        /\ last'.malloc = "none" /\ live' = live]_vars

\* ------------------------------------------------------------------ C5
\* C5 (as claimed): an arena_alloc whose underlying allocation fails returns
\* the failure value and leaves the Arena and every region as they were.
C5_FailureLeavesState ==
    [][(Returned("alloc") /\ last'.malloc = "fail") =>
        /\ ret' = NoHandle
        /\ a' = a /\ mem' = mem /\ live' = live]_vars

\* ------------------------------------------------------------------ C6
\* C6: every region created by arena_alloc(a, bytes), as head of an empty
\* arena or appended, has capacity exactly max(bytes, D) and used = bytes,
\* D being a.region_capacity if non-zero and ARENA_REGION_CAPACITY otherwise.
C6_RegionSizing ==
    [][(Returned("alloc") /\ last'.malloc = "ok") =>
        LET n == a'.tail
            D == DefaultOf(a)
        IN  /\ live' = live \cup {n} /\ n \notin live
            /\ last'.path \in {"empty", "append"}
            /\ mem'[n].capacity = Max(last'.bytes, D)
            /\ last'.bytes > D => mem'[n].capacity = last'.bytes
            /\ mem'[n].count = last'.bytes]_vars

\* A region larger than the default was appended to a zero-configured arena.
C6_Witness ==
    /\ status = "ok" /\ last.op = "alloc" /\ last.malloc = "ok"
    /\ last.path = "append"
    /\ a.region_capacity = 0
    /\ last.bytes > ARENA_REGION_CAPACITY
    /\ last.request = HeaderSize + last.bytes
    /\ mem[a.tail].capacity = last.bytes

\* ------------------------------------------------------------------ C7
\* C7 (as claimed): when tail is the last region of the chain and lacks
\* room, a successful arena_alloc makes one underlying allocation, makes the
\* chain exactly one region longer, links the new region as next of the old
\* tail, moves tail to it and returns its offset 0; and no arena_alloc ever
\* creates more than one region.
C7_ChainGrowsByOne ==
    [][Returned("alloc") =>
        /\ Cardinality(live' \ live) <= 1
        /\ (/\ ret' # NoHandle
            /\ a.head # NULL
            /\ WellFormed(mem, a, live)
            /\ Chain(mem, a)[Len(Chain(mem, a))] = a.tail
            /\ last'.bytes > Remaining(mem[a.tail])) =>
               LET n == a'.tail
               IN  /\ last'.malloc = "ok"
                   /\ n \notin live /\ live' = live \cup {n}
                   /\ WellFormed(mem', a', live')
                   /\ Chain(mem', a') = Append(Chain(mem, a), n)
                   /\ mem'[a.tail].next = n
                   /\ ret' = [region |-> n, off |-> 0, size |-> last'.bytes]]_vars

\* ------------------------------------------------------------------ C8
\* C8: when arena_reset returns, every region of the chain has used = 0 and
\* tail = head; the chain, every capacity and next link, head,
\* region_capacity and the set of blocks owned are as before; on an empty
\* arena nothing changes.
C8_ResetEffect ==
    [][Returned("reset") =>
        /\ \A s \in Range(Chain(mem, a)) : mem'[s].count = 0
        /\ a'.tail = a'.head
        /\ a'.head = a.head /\ a'.region_capacity = a.region_capacity
        /\ Chain(mem', a') = Chain(mem, a)
        /\ \A s \in Slots : /\ mem'[s].capacity = mem[s].capacity
                            /\ mem'[s].next = mem[s].next
                            /\ s \notin Range(Chain(mem, a)) => mem'[s] = mem[s]
        /\ live' = live
        /\ a.head = NULL => (a' = a /\ mem' = mem)]_vars

\* A reset of a two-region chain brought tail back from the second region.
C8_Witness ==
    /\ status = "ok" /\ last.op = "reset"
    /\ Len(Chain(mem, a)) = 2
    /\ WellFormed(mem, a, live)
    /\ a.tail = a.head
    /\ \A s \in live : mem[s].count = 0 /\ mem[s].capacity > 0

\* ------------------------------------------------------------------ C9
\* C9: when arena_free returns, head and tail are both NULL and
\* region_capacity has the value it had before the call; on an empty arena
\* nothing changes.
C9_FreeEffect ==
    [][Returned("free") =>
        /\ a'.head = NULL /\ a'.tail = NULL
        /\ a'.region_capacity = a.region_capacity
        /\ a.head = NULL => (a' = a /\ mem' = mem /\ live' = live)]_vars

\* A configured arena with two regions was freed and kept its configuration.
C9_Witness ==
    /\ status = "ok" /\ last.op = "free"
    /\ Len(last.freed) = 2
    /\ a.region_capacity = CustomCapacity
    /\ a.head = NULL /\ a.tail = NULL /\ live = {}

C11_PluggableDeallocation ==
    /\ (status = "ok" /\ last.op = "alloc" /\ last.malloc # "none") =>
           \A cfg \in Configs : last.by[cfg] = ARENA_REALLOC(cfg)
    /\ (status = "ok" /\ last.op = "free" /\ last.freed # <<>>) =>
           \A cfg \in Configs : last.by[cfg] = ARENA_FREE(cfg)

\* ------------------------------------------------------------------ C12
\* C12 (as claimed): arena_alloc passes a false condition to ARENA_ASSERT
\* if and only if the underlying allocation of that call failed, on the
\* empty path and on the append path alike.
C12_AssertTracksFailure ==
    (status = "ok" /\ last.op = "alloc") =>
        ((\E i \in 1..Len(last.asserts) : ~last.asserts[i]) <=> last.malloc = "fail")

\* ------------------------------------------------------------------ C13
\* C13: an arena_reset right after an arena_reset leaves head, tail,
\* region_capacity, the chain and every region's fields as the first left them.
C13_ResetIdempotent ==
    [][(last.op = "reset" /\ Returned("reset")) =>
        /\ a' = a /\ mem' = mem /\ live' = live
        /\ Chain(mem', a') = Chain(mem, a)]_vars

\* The second of two resets of a two-region chain has returned.
C13_Witness ==
    /\ status = "ok" /\ last.op = "reset" /\ last.twice
    /\ Len(Chain(mem, a)) = 2
    /\ WellFormed(mem, a, live)
    /\ \A s \in live : mem[s].count = 0

\* ------------------------------------------------------------------ C14
\* C14: in every reachable state every region of the chain has
\* 0 <= used <= capacity, so capacity - used does not underflow; and no call
\* changes the capacity of a region the arena keeps.
C14_UsageBound ==
    /\ [](\A s \in Range(Chain(mem, a)) \cup live :
            /\ 0 <= mem[s].count
            /\ mem[s].count <= mem[s].capacity
            /\ Remaining(mem[s]) = mem[s].capacity - mem[s].count)
    /\ [][\A s \in live \cap live' : mem'[s].capacity = mem[s].capacity]_vars

\* A bump allocation has filled its region to the last byte.
C14_Witness ==
    /\ status = "ok" /\ last.op = "alloc" /\ last.path = "bump"
    /\ last.bytes > 0
    /\ mem[a.tail].count = mem[a.tail].capacity
    /\ a.tail \in live

\* ------------------------------------------------------------------ C15
\* C15 (as claimed): in every reachable state the chain from head is finite,
\* acyclic and ends in a region whose next is NULL; a region that arena_alloc
\* has just created has next = NULL whatever the allocator's block held.
C15_WellFormedChain ==
    /\ ~WalkChain(mem, a.head, <<>>).hang
    /\ a.head # NULL =>
           mem[Chain(mem, a)[Len(Chain(mem, a))]].next = NULL
    /\ (status = "ok" /\ last.op = "alloc" /\ last.malloc = "ok") =>
           mem[a.tail].next = NULL

FromTail == WalkChain(mem, a.tail, <<>>).nodes

\* The positions in FromTail of the regions with room for n bytes.
Fits(n) == {i \in 1..Len(FromTail) : mem[FromTail[i]].capacity - mem[FromTail[i]].count >= n}

\* C17: on a non-empty arena a successful arena_alloc(a, bytes) uses the
\* first region from tail on with capacity - used >= bytes and makes it the
\* tail; it creates a region only when none has room, and links it after the
\* last region of the chain.
C17_FirstFitFromTail ==
    [][(a.head # NULL /\ AllocSucceeded) =>
        LET n == last'.bytes
        IN  IF Fits(n) # {}
            THEN LET i == CHOOSE k \in Fits(n) : \A l \in Fits(n) : k <= l
                     t == FromTail[i]
                 IN  /\ last'.malloc = "none"
                     /\ live' = live
                     /\ a'.tail = t
                     /\ ret'.region = t
                     /\ mem'[t].count = mem[t].count + n
                     /\ \A s \in Slots \ {t} : mem'[s] = mem[s]
            ELSE /\ last'.malloc = "ok"
                 /\ a'.tail \notin live
                 /\ live' = live \cup {a'.tail}
                 /\ ret'.region = a'.tail
                 /\ mem'[FromTail[Len(FromTail)]].next = a'.tail
                 /\ \A s \in live \ {FromTail[Len(FromTail)]} : mem'[s] = mem[s]
      ]_vars

\* The walk has passed a full tail and placed the allocation in a later
\* region that was already in the chain.
C17_Witness ==
    /\ status = "ok" /\ last.op = "alloc" /\ last.path = "walk"
    /\ a.tail # a.head
    /\ ret.region = a.tail
    /\ mem[a.head].capacity - mem[a.head].count < last.bytes
    /\ WellFormed(mem, a, live)

\* ------------------------------------------------------------------ C18
\* The position of block x in the sequence c, 0 when it is not there.
Position(c, x) ==
    IF \E i \in 1..Len(c) : c[i] = x
    THEN CHOOSE i \in 1..Len(c) : c[i] = x
    ELSE 0

\* C18 (as claimed): an arena_alloc on a non-empty arena leaves tail where
\* it was or on a region later in the chain, and leaves used and capacity of
\* every region before the new tail as they were.
C18_ForwardOnlyTail ==
    [][(a.head # NULL /\ Returned("alloc")) =>
        LET c == Chain(mem', a')
        IN  /\ Position(c, a'.tail) >= Position(c, a.tail)
            /\ Position(c, a.tail) > 0
            /\ \A i \in 1..(Position(c, a'.tail) - 1) :
                   /\ mem'[c[i]].count = mem[c[i]].count
                   /\ mem'[c[i]].capacity = mem[c[i]].capacity
      ]_vars

\* ------------------------------------------------------------------ C19
\* C19 (as claimed): the blocks acquired and not yet released are exactly
\* the regions reached from head; arena_alloc and arena_reset release
\* nothing; arena_free hands every region of the chain to the deallocator
\* once, and nothing acquired is left afterwards.
C19_NoLeakNoDoubleRelease ==
    /\ [](status = "ok" => live = Range(Chain(mem, a)))
    /\ [][(Returned("alloc") \/ Returned("reset")) => live \subseteq live']_vars
    /\ [][Returned("free") =>
            /\ Range(last'.freed) = live
            /\ \A i, j \in 1..Len(last'.freed) :
                   last'.freed[i] = last'.freed[j] => i = j
            /\ live' = {}]_vars

\* ------------------------------------------------------------------ C20
\* C20 (as claimed): when arena_alloc has created a region, the byte count
\* it asked the allocator for is at least the header size plus the capacity
\* it recorded in the region.
C20_NoSizeWrap ==
    (status = "ok" /\ last.op = "alloc" /\ last.malloc = "ok") =>
        last.request >= HeaderSize + mem[a.tail].capacity

====
